---- MODULE Spec2Model ----
(***************************************************************************)
(* Model of src/src/main.py: the Streamlit literature-review script.       *)
(* One script run is the sequence sidebar -> button handling -> model      *)
(* resolution -> arXiv search -> one Summarizer call per paper -> store.   *)
(* External services (google.generativeai, arxiv, the user at the widgets) *)
(* are inputs drawn from bounded sets.                                     *)
(***************************************************************************)
EXTENDS Integers, Sequences, FiniteSets, TLC

\* ------------------------------------------------------------------ bounds
\* longest ranked list the arXiv index answers with
MaxFetched == 4
\* most model records genai.list_models() yields
MaxListed == 2
\* most candidates whose construction probe raises (besides "all of them")
MaxProbeFails == 2

\* ------------------------------------------------------- values and inputs
\* Python's None
None == "None"

\* truthiness of a str-or-None value (`if x:` / `x or y`)
Truthy(x) == x # None /\ x # ""

\* setup_gemini's static priority list
candidates ==
    << "gemini-1.5-flash", "gemini-1.5-flash-latest", "gemini-1.5-flash-8b",
       "gemini-1.5-pro", "gemini-1.5-pro-latest", "gemini-1.0-pro",
       "gemini-pro" >>

\* the sidebar's fallback options
default_models ==
    << "gemini-1.5-flash", "gemini-1.5-flash-latest", "gemini-1.5-pro",
       "gemini-1.0-pro" >>

\* the options of the "Number of papers" selectbox
num_papers_options == {3, 5, 8, 10}

\* summarize_with_gemini's hard-coded fallback model
FallbackModel == "gemini-1.5-flash"

\* the literal head of the failure marker
FailurePrefix == "Summary failed:"

Range(s) == {s[i] : i \in 1..Len(s)}

CandSet == Range(candidates)

\* names the provider may list, in Python's str order (what sorted() yields)
ListedNamesSorted == << "", "gemini-pro", "tunedModels/custom" >>

\* supported_generation_methods values of a listed model
MethodSets == { {}, {"generateContent"}, {"embedContent"} }

\* model records genai.list_models() may yield: distinct names, at most MaxListed
ListedModels ==
    { L \in SUBSET [name : Range(ListedNamesSorted), methods : MethodSets] :
        /\ Cardinality(L) <= MaxListed
        /\ \A a, b \in L : a.name = b.name => a = b }

\* what genai.list_models() may do: raise, or yield model records
Listings ==
    { [raises |-> TRUE, models |-> {}] }
        \cup { [raises |-> FALSE, models |-> L] : L \in ListedModels }

\* the listing of a run that never calls genai.list_models()
NoListing == [raises |-> FALSE, models |-> {}]

\* sets of candidates whose genai.GenerativeModel(name) probe raises
ProbeFailSets ==
    { S \in SUBSET CandSet : Cardinality(S) <= MaxProbeFails } \cup {CandSet}

\* paper records, named by their arXiv identity
Papers == 1..MaxFetched

\* ranked answers of the arXiv index: the n most relevant papers of one of two
\* relevance orders
Rankings ==
    { [i \in 1..n |-> i] : n \in 0..MaxFetched }
        \cup { [i \in 1..n |-> MaxFetched + 1 - i] : n \in 1..MaxFetched }

\* what one genai call of summarize_with_gemini does
LLMOutcomes == {"raise", "none", "text"}

Max(a, b) == IF a >= b THEN a ELSE b
Min(a, b) == IF a <= b THEN a ELSE b

\* ------------------------------------------------------------------- state
VARIABLES
    GEMINI_API_KEY,   \* os.getenv("GEMINI_API_KEY"): None or a key
    SELECTED_MODEL,   \* the module global
    session_state,    \* st.session_state: results, is_running, user_selected_model
    pc,               \* position of the script run
    num_papers,       \* main's local
    papers,           \* main's local, after truncation
    summaries,        \* main's local
    \* history of the current operation
    op,               \* "none" | "main" | "setup_gemini"
    resolution,       \* "none" | "override" | "auto": branch taken at lines 290-300
    setup_return,     \* what setup_gemini returned: "none" (not called), "True", "False"
    writes,           \* assignments to SELECTED_MODEL by this operation
    resolved,         \* the value the resolution step assigned, None if none
    enumerations,     \* get_available_gemini_models calls of the resolution step
    walked,           \* setup_gemini reached its candidate walk
    available,        \* the enumerated set the walk filtered against
    probe_fails,      \* the probe outcome the walk met
    probes,           \* candidates probed, in order
    searches,         \* arxiv_search calls
    search_raised,    \* arxiv_search raised
    fetched,          \* what arxiv_search returned
    calls,            \* Summarizer calls: [paper, model, raised]
    outcome,          \* how the operation ended
    selector_changed  \* the user ever picked an entry other than the default

vars == << GEMINI_API_KEY, SELECTED_MODEL, session_state, pc, num_papers, papers,
           summaries, op, resolution, setup_return, writes, resolved, enumerations,
           walked, available, probe_fails, probes, searches, search_raised, fetched, calls,
           outcome, selector_changed >>

locals == << num_papers, papers, summaries >>

\* ------------------------------------------------------- pure computations
\* get_available_gemini_models: filter, then sorted(names); [] when listing raises
get_available_gemini_models(listing) ==
    IF listing.raises THEN <<>>
    ELSE LET keep == { m.name : m \in { r \in listing.models :
                          /\ r.name # ""
                          /\ ("generateContent" \in r.methods \/ r.methods = {}) } }
         IN SelectSeq(ListedNamesSorted, LAMBDA n : n \in keep)

\* a walk that probes whatever the enumeration said
PassesFilterIgnoringEnumeration(name, avail) == TRUE

\* the membership filter of the walk (line 136)
PassesFilter(name, avail) == avail = {} \/ name \in avail

RECURSIVE Walk(_, _, _, _)
\* the for loop of setup_gemini from candidate i on
Walk(i, avail, fails, probed) ==
    IF i > Len(candidates) THEN [model |-> None, probes |-> probed]
    ELSE IF PassesFilter(candidates[i], avail)
         THEN IF candidates[i] \in fails
              THEN Walk(i + 1, avail, fails, Append(probed, candidates[i]))
              ELSE [model |-> candidates[i], probes |-> Append(probed, candidates[i])]
         ELSE Walk(i + 1, avail, fails, probed)

\* setup_gemini as a function of the global, the key and the provider's answers
setup_gemini(cur, key, configure_raises, listing, fails) ==
    IF ~Truthy(key)
    THEN [ok |-> FALSE, model |-> cur, writes |-> 0, enumerations |-> 0,
          walked |-> FALSE, available |-> {}, probes |-> <<>>,
          outcome |-> "credential_error"]
    ELSE IF configure_raises
    THEN [ok |-> FALSE, model |-> cur, writes |-> 0, enumerations |-> 0,
          walked |-> FALSE, available |-> {}, probes |-> <<>>,
          outcome |-> "configure_failed"]
    ELSE LET avail == Range(get_available_gemini_models(listing))
             w     == Walk(1, avail, fails, <<>>)
             model == IF w.model # None THEN w.model ELSE cur
         IN [ok |-> Truthy(model), model |-> model,
             writes |-> IF w.model # None THEN 1 ELSE 0,
             enumerations |-> 1, walked |-> TRUE, available |-> avail,
             probes |-> w.probes,
             outcome |-> IF Truthy(model) THEN "resolved" ELSE "no_compatible_model"]

\* an override that is second-guessed: probed, and replaced unless a candidate
OverrideResolutionChecked(user_selected) ==
    [model |-> IF user_selected \in CandSet THEN user_selected ELSE candidates[1],
     writes |-> 1, enumerations |-> 1, probes |-> << user_selected >>]

\* the override branch of main (lines 291-295) when configure does not raise
OverrideResolution(user_selected) ==
    [model |-> user_selected, writes |-> 1, enumerations |-> 0, probes |-> <<>>]

\* arxiv_search: at most max_results of the index's ranking, in its order
arxiv_search(ranking, max_results) ==
    SubSeq(ranking, 1, Min(Len(ranking), max_results))

\* no down-selection at all
TruncateNothing(ps, k) == ps

\* the last k papers in place of the first k
TruncateToLast(ps, k) == SubSeq(ps, Len(ps) - Min(Len(ps), k) + 1, Len(ps))

\* papers[:num_papers]
Truncate(ps, k) == SubSeq(ps, 1, Min(Len(ps), k))

\* a Summarizer that always constructs the hard-coded model
ModelForCallHardCoded(selected_model) == FallbackModel

\* the model summarize_with_gemini constructs (line 193)
ModelForCall(selected_model) ==
    IF Truthy(selected_model) THEN selected_model ELSE FallbackModel

\* resp.text or ""  (a text is a sequence of fragments)
ResponseText(llm) == IF llm = "text" THEN << "text" >> ELSE <<>>

\* f"Summary failed: {e}"
FailureText(e) == << FailurePrefix, " ", e >>

StartsWith(text, prefix) == Len(text) >= 1 /\ text[1] = prefix

\* ------------------------------------------------------------------- Init
Init ==
    /\ GEMINI_API_KEY \in {None, "key"}
    /\ SELECTED_MODEL = None
    /\ session_state = [results |-> <<>>, is_running |-> FALSE,
                        user_selected_model |-> None]
    /\ pc = "idle"
    /\ num_papers = 0
    /\ papers = <<>>
    /\ summaries = <<>>
    /\ op = "none"
    /\ resolution = "none"
    /\ setup_return = "none"
    /\ writes = 0
    /\ resolved = None
    /\ enumerations = 0
    /\ walked = FALSE
    /\ available = {}
    /\ probe_fails = {}
    /\ probes = <<>>
    /\ searches = 0
    /\ search_raised = FALSE
    /\ fetched = <<>>
    /\ calls = <<>>
    /\ outcome = "none"
    /\ selector_changed = FALSE

ResetHistory(o) ==
    /\ op' = o
    /\ resolution' = "none"
    /\ setup_return' = "none"
    /\ writes' = 0
    /\ resolved' = None
    /\ enumerations' = 0
    /\ walked' = FALSE
    /\ available' = {}
    /\ probe_fails' = {}
    /\ probes' = <<>>
    /\ searches' = 0
    /\ search_raised' = FALSE
    /\ fetched' = <<>>
    /\ calls' = <<>>
    /\ outcome' = "none"

\* ----------------------------------------------------------------- actions
\* the module-level code (lines 70-97) run on its own: import or reload of the module
ModuleLoad ==
    /\ pc = "idle"
    /\ SELECTED_MODEL' = None
    /\ ResetHistory("none")
    /\ UNCHANGED << GEMINI_API_KEY, session_state, pc, locals, selector_changed >>

\* the sidebar's model_options: available_models or default_models
model_options(key, configure_raises, listing) ==
    LET available_models ==
            IF Truthy(key) /\ ~configure_raises
            THEN get_available_gemini_models(listing) ELSE <<>>
    IN IF available_models # <<>> THEN available_models ELSE default_models

\* one script run of the app up to the model selectbox: the module-level code
\* (lines 70-97, which rebind SELECTED_MODEL) and main, lines 198-237
main_sidebar ==
    /\ pc = "idle"
    /\ SELECTED_MODEL' = None
    /\ num_papers' = 0
    /\ papers' = <<>>
    /\ summaries' = <<>>
    /\ \E listing \in IF Truthy(GEMINI_API_KEY) THEN Listings ELSE {NoListing},
          configure_raises \in IF Truthy(GEMINI_API_KEY) THEN BOOLEAN ELSE {FALSE} :
          LET options == model_options(GEMINI_API_KEY, configure_raises, listing)
          IN \E selected \in Range(options) :
                /\ session_state' =
                      IF Truthy(selected)
                      THEN [session_state EXCEPT !.user_selected_model = selected]
                      ELSE session_state
                /\ selector_changed' = (selector_changed \/ selected # options[1])
    /\ pc' = "buttons"
    /\ ResetHistory("main")
    /\ UNCHANGED GEMINI_API_KEY

\* main, lines 259-261: the Clear Results button
main_clear ==
    /\ pc = "buttons"
    /\ session_state' = [session_state EXCEPT !.results = <<>>]
    /\ pc' = "idle"
    /\ outcome' = "cleared"
    /\ UNCHANGED << GEMINI_API_KEY, SELECTED_MODEL, locals, op, resolution,
                    setup_return, writes, resolved, enumerations, walked, available,
                    probe_fails, probes, searches, search_raised, fetched, calls,
                    selector_changed >>

\* main with no button pressed (or Start pressed while disabled): line 276 binds
\* num_papers to the selectbox value, line 284 is False, lines 343-417 only read
main_display ==
    /\ pc = "buttons"
    /\ \E k \in num_papers_options : num_papers' = k
    /\ pc' = "idle"
    /\ outcome' = "displayed"
    /\ UNCHANGED << GEMINI_API_KEY, SELECTED_MODEL, session_state, papers, summaries,
                    op, resolution, setup_return, writes, resolved, enumerations, walked,
                    available, probe_fails, probes, searches, search_raised, fetched,
                    calls, selector_changed >>

\* main, lines 284-306: the Start button up to the search.  The sidebar of the
\* same script run has stored a truthy user_selected_model (line 237), so the
\* elif of line 299 is modelled as written but is never the branch taken.
main_start ==
    /\ pc = "buttons"
    /\ ~session_state.is_running
    /\ \E topic \in {"", "topic"}, k \in num_papers_options, configure_raises \in BOOLEAN :
          LET user_selected == session_state.user_selected_model
          IN  /\ num_papers' = k
              /\ IF ~Truthy(topic)
                 THEN /\ outcome' = "no_topic"
                      /\ pc' = "idle"
                      /\ UNCHANGED << SELECTED_MODEL, session_state, resolution,
                                      setup_return, writes, resolved, enumerations,
                                      walked, available, probe_fails, probes >>
                 ELSE IF Truthy(user_selected)
                 THEN /\ resolution' = "override"
                      /\ UNCHANGED << setup_return, walked, available, probe_fails >>
                      /\ IF configure_raises
                         THEN /\ outcome' = "select_failed"
                              /\ pc' = "idle"
                              /\ UNCHANGED << SELECTED_MODEL, session_state, writes,
                                              resolved, enumerations, probes >>
                         ELSE LET r == OverrideResolution(user_selected)
                              IN  /\ SELECTED_MODEL' = r.model
                                  /\ resolved' = r.model
                                  /\ writes' = r.writes
                                  /\ enumerations' = r.enumerations
                                  /\ probes' = r.probes
                                  /\ session_state' = [session_state EXCEPT
                                                         !.is_running = TRUE,
                                                         !.results = <<>>]
                                  /\ outcome' = "running"
                                  /\ pc' = "search"
                 ELSE \E listing \in Listings, fails \in ProbeFailSets :
                        \E r \in { setup_gemini(SELECTED_MODEL, GEMINI_API_KEY,
                                                 configure_raises, listing, fails) } :
                            /\ resolution' = "auto"
                            /\ setup_return' = IF r.ok THEN "True" ELSE "False"
                            /\ SELECTED_MODEL' = r.model
                            /\ resolved' = IF r.writes > 0 THEN r.model ELSE None
                            /\ writes' = r.writes
                            /\ enumerations' = r.enumerations
                            /\ walked' = r.walked
                            /\ available' = r.available
                            /\ probe_fails' = fails
                            /\ probes' = r.probes
                            /\ IF r.ok
                               THEN /\ session_state' = [session_state EXCEPT
                                                           !.is_running = TRUE,
                                                           !.results = <<>>]
                                    /\ outcome' = "running"
                                    /\ pc' = "search"
                               ELSE /\ outcome' = r.outcome
                                    /\ pc' = "idle"
                                    /\ UNCHANGED session_state
    /\ papers' = <<>>
    /\ summaries' = <<>>
    /\ UNCHANGED << GEMINI_API_KEY, op, searches, search_raised, fetched, calls,
                    selector_changed >>

\* main, lines 309-313: arxiv_search returns; truncate; start the loop
main_search_returns ==
    /\ pc = "search"
    /\ \E ranking \in Rankings :
          LET got == arxiv_search(ranking, Max(10, num_papers * 3))
          IN  /\ fetched' = got
              /\ papers' = Truncate(got, num_papers)
    /\ searches' = searches + 1
    /\ summaries' = <<>>
    /\ pc' = "summarize"
    /\ UNCHANGED << GEMINI_API_KEY, SELECTED_MODEL, session_state, num_papers, op,
                    resolution, setup_return, writes, resolved, enumerations, walked,
                    available, probe_fails, probes, search_raised, calls, outcome,
                    selector_changed >>

\* a search failure swallowed as an empty answer: the run completes normally
main_search_raises_swallowed ==
    /\ pc = "search"
    /\ searches' = searches + 1
    /\ search_raised' = TRUE
    /\ fetched' = <<>>
    /\ papers' = <<>>
    /\ summaries' = <<>>
    /\ pc' = "summarize"
    /\ UNCHANGED << GEMINI_API_KEY, SELECTED_MODEL, session_state, num_papers, op,
                    resolution, setup_return, writes, resolved, enumerations, walked,
                    available, probe_fails, probes, calls, outcome, selector_changed >>

\* main, lines 310 and 338-340: arxiv_search raises; the run-level handler
main_search_raises ==
    /\ pc = "search"
    /\ searches' = searches + 1
    /\ search_raised' = TRUE
    /\ session_state' = [session_state EXCEPT !.is_running = FALSE]
    /\ outcome' = "source_unavailable"
    /\ pc' = "idle"
    /\ UNCHANGED << GEMINI_API_KEY, SELECTED_MODEL, locals, op, resolution,
                    setup_return, writes, resolved, enumerations, walked, available,
                    probe_fails, probes, fetched, calls, selector_changed >>

\* main, lines 314-323 with summarize_with_gemini returning
main_summarize_returns ==
    /\ pc = "summarize"
    /\ Len(summaries) < Len(papers)
    /\ \E llm \in LLMOutcomes \ {"raise"} :
          LET paper == papers[Len(summaries) + 1]
          IN  /\ calls' = Append(calls, [paper |-> paper,
                                         model |-> ModelForCall(SELECTED_MODEL),
                                         raised |-> FALSE])
              /\ summaries' = Append(summaries, [paper |-> paper,
                                                 summary |-> ResponseText(llm)])
    /\ UNCHANGED << GEMINI_API_KEY, SELECTED_MODEL, session_state, pc, num_papers,
                    papers, op, resolution, setup_return, writes, resolved,
                    enumerations, walked, available, probe_fails, probes, searches,
                    search_raised, fetched, outcome, selector_changed >>

\* a Summarizer failure that escapes to the run-level handler and ends the batch
main_summarize_raises_aborts ==
    /\ pc = "summarize"
    /\ Len(summaries) < Len(papers)
    /\ calls' = Append(calls, [paper |-> papers[Len(summaries) + 1],
                               model |-> ModelForCall(SELECTED_MODEL),
                               raised |-> TRUE])
    /\ session_state' = [session_state EXCEPT !.is_running = FALSE]
    /\ outcome' = "error"
    /\ pc' = "idle"
    /\ UNCHANGED << GEMINI_API_KEY, SELECTED_MODEL, locals, op, resolution,
                    setup_return, writes, resolved, enumerations, walked, available,
                    probe_fails, probes, searches, search_raised, fetched,
                    selector_changed >>

\* main, lines 314-323 with summarize_with_gemini raising
main_summarize_raises ==
    /\ pc = "summarize"
    /\ Len(summaries) < Len(papers)
    /\ LET paper == papers[Len(summaries) + 1]
       IN  /\ calls' = Append(calls, [paper |-> paper,
                                      model |-> ModelForCall(SELECTED_MODEL),
                                      raised |-> TRUE])
           /\ summaries' = Append(summaries, [paper |-> paper,
                                              summary |-> FailureText("quota")])
    /\ UNCHANGED << GEMINI_API_KEY, SELECTED_MODEL, session_state, pc, num_papers,
                    papers, op, resolution, setup_return, writes, resolved,
                    enumerations, walked, available, probe_fails, probes, searches,
                    search_raised, fetched, outcome, selector_changed >>

\* main, lines 330-336: the loop is over; store the results
main_complete ==
    /\ pc = "summarize"
    /\ Len(summaries) = Len(papers)
    /\ session_state' = [session_state EXCEPT !.results = summaries,
                                              !.is_running = FALSE]
    /\ outcome' = "complete"
    /\ pc' = "idle"
    /\ UNCHANGED << GEMINI_API_KEY, SELECTED_MODEL, locals, op, resolution,
                    setup_return, writes, resolved, enumerations, walked, available,
                    probe_fails, probes, searches, search_raised, fetched, calls,
                    selector_changed >>

\* setup_gemini called on the loaded module
call_setup_gemini ==
    /\ pc = "idle"
    /\ \E configure_raises \in IF Truthy(GEMINI_API_KEY) THEN BOOLEAN ELSE {FALSE} :
       \E listing \in IF Truthy(GEMINI_API_KEY) /\ ~configure_raises
                      THEN Listings ELSE {NoListing},
          fails \in IF Truthy(GEMINI_API_KEY) /\ ~configure_raises
                    THEN ProbeFailSets ELSE {{}} :
          \E r \in { setup_gemini(SELECTED_MODEL, GEMINI_API_KEY, configure_raises,
                                   listing, fails) } :
              /\ op' = "setup_gemini"
              /\ resolution' = "auto"
              /\ setup_return' = IF r.ok THEN "True" ELSE "False"
              /\ SELECTED_MODEL' = r.model
              /\ resolved' = IF r.writes > 0 THEN r.model ELSE None
              /\ writes' = r.writes
              /\ enumerations' = r.enumerations
              /\ walked' = r.walked
              /\ available' = r.available
              /\ probe_fails' = fails
              /\ probes' = r.probes
              /\ outcome' = r.outcome
    /\ searches' = 0
    /\ search_raised' = FALSE
    /\ fetched' = <<>>
    /\ calls' = <<>>
    /\ UNCHANGED << GEMINI_API_KEY, session_state, pc, locals, selector_changed >>

Next ==
    \/ main_sidebar
    \/ main_clear
    \/ main_display
    \/ main_start
    \/ main_search_returns
    \/ main_search_raises
    \/ main_summarize_returns
    \/ main_summarize_raises
    \/ main_complete

Spec == Init /\ [][Next]_vars

\* the resolver alone: setup_gemini called again and again on the loaded module
NextResolver ==
    \/ ModuleLoad
    \/ call_setup_gemini

SpecResolver == Init /\ [][NextResolver]_vars

\* ------------------------------------------------------------------ claims
results == session_state.results

RaisedCalls == { i \in 1..Len(calls) : calls[i].raised }

\* C1: a completed run's result list is as long as the list of papers handed to
\* the Summarizer, never longer than the requested count, and exactly the
\* requested count when the search returned at least that many papers.
C1_ResultLength ==
    outcome = "complete" =>
        /\ Len(results) = Len(calls)
        /\ Len(results) <= num_papers
        /\ (Len(fetched) >= num_papers => Len(results) = num_papers)

C1_Witness ==
    /\ outcome = "complete"
    /\ Len(fetched) > num_papers
    /\ Len(results) = num_papers
    /\ RaisedCalls # {}
    /\ RaisedCalls # 1..Len(calls)

\* C2: every Summarizer call that raised left, at its paper's position, a record
\* whose summary starts with "Summary failed:"; the run is not ended by it, no
\* record is dropped, and a completed run has a record for every paper.
C2_FailureMarkedBatchContinues ==
    /\ Len(summaries) = Len(calls)
    /\ \A i \in RaisedCalls :
          /\ summaries[i].paper = calls[i].paper
          /\ StartsWith(summaries[i].summary, "Summary failed:")
    /\ RaisedCalls # {} => outcome \in {"running", "complete"}
    /\ outcome = "complete" =>
          /\ Len(results) = Len(papers)
          /\ \A i \in RaisedCalls : StartsWith(results[i].summary, "Summary failed:")

C2_Witness ==
    /\ outcome = "complete"
    /\ Len(results) = 3
    /\ calls[1].raised
    /\ ~calls[2].raised
    /\ calls[3].raised
    /\ StartsWith(results[1].summary, "Summary failed:")
    /\ ~StartsWith(results[2].summary, "Summary failed:")

\* C3: the Summarizer is called once per truncated paper, in fetched order, and
\* the i-th record of a completed run holds the i-th fetched paper: the records
\* are the first k fetched papers, whatever calls failed.
C3_FetchedOrderKept ==
    /\ Len(calls) <= Min(num_papers, Len(fetched))
    /\ \A i \in 1..Len(calls) : calls[i].paper = fetched[i]
    /\ outcome = "complete" =>
          /\ Len(calls) = Min(num_papers, Len(fetched))
          /\ Len(results) = Min(num_papers, Len(fetched))
          /\ \A i \in 1..Len(results) : results[i].paper = fetched[i]

C3_Witness ==
    /\ outcome = "complete"
    /\ num_papers = 3
    /\ Len(fetched) > 3
    /\ fetched[1] > fetched[2]
    /\ Len(calls) = 3
    /\ RaisedCalls = {2}
    /\ [i \in 1..3 |-> results[i].paper] = SubSeq(fetched, 1, 3)

\* C4: when the paper search raises, the run ends as one run-level failure and
\* no Summarizer call is made.
C4_SearchFailureIsFatal ==
    search_raised =>
        /\ outcome = "source_unavailable"
        /\ pc = "idle"
        /\ calls = <<>>
        /\ results = <<>>
        /\ ~session_state.is_running

C4_Witness ==
    /\ search_raised
    /\ searches = 1
    /\ outcome = "source_unavailable"
    /\ Truthy(SELECTED_MODEL)

\* C5: a run started without an API credential performs no paper search and no
\* Summarizer call.
C5_NoCredentialNoNetwork ==
    ~Truthy(GEMINI_API_KEY) => (searches = 0 /\ calls = <<>>)

\* no candidate passed the membership filter and survived its probe
NoSurvivor ==
    \A i \in 1..Len(candidates) :
        (available = {} \/ candidates[i] \in available) => candidates[i] \in probe_fails

\* the first candidate, in priority order, that passes the filter and its probe
FirstSurvivor ==
    CHOOSE i \in 1..Len(candidates) :
        /\ (available = {} \/ candidates[i] \in available)
        /\ candidates[i] \notin probe_fails
        /\ \A j \in 1..(i - 1) :
              (available = {} \/ candidates[j] \in available) => candidates[j] \in probe_fails

\* C6: a resolution attempt in which no candidate survived the membership filter
\* and the probe reports NoCompatibleModel (setup_gemini returns False), also when
\* an earlier attempt had set the resolved model; nothing is searched or summarized.
C6_NoSurvivorReportsFailure ==
    (walked /\ NoSurvivor) =>
        /\ setup_return = "False"
        /\ outcome = "no_compatible_model"
        /\ searches = 0
        /\ calls = <<>>

\* C7: automatic resolution selects the first candidate in priority order that
\* passes the membership filter and survives its probe; every probe before it
\* failed and was swallowed; candidates outside a non-empty enumerated set are
\* never probed; nothing after the selected candidate is probed; with an empty
\* enumeration and the first two probes failing the third candidate is resolved
\* after exactly three probes.
C7_FirstSurvivorResolved ==
    walked =>
        /\ \A j \in 1..Len(probes) :
              /\ probes[j] \in CandSet
              /\ (available = {} \/ probes[j] \in available)
        /\ ~NoSurvivor =>
              /\ SELECTED_MODEL = candidates[FirstSurvivor]
              /\ setup_return = "True"
              /\ probes = SelectSeq(SubSeq(candidates, 1, FirstSurvivor),
                                    LAMBDA c : available = {} \/ c \in available)
              /\ \A j \in 1..(Len(probes) - 1) : probes[j] \in probe_fails
        /\ (available = {} /\ probe_fails = {candidates[1], candidates[2]}) =>
              /\ SELECTED_MODEL = candidates[3]
              /\ Len(probes) = 3

C7_Witness ==
    /\ walked
    /\ available = {}
    /\ probe_fails = {candidates[1], candidates[2]}
    /\ SELECTED_MODEL = candidates[3]
    /\ probes = SubSeq(candidates, 1, 3)
    /\ setup_return = "True"

\* C8: with an explicit override the resolution step enumerates no models and
\* probes no candidate, and the resolved model is the override unchanged, in the
\* candidate list or the enumerated set or not.
C8_OverrideWins ==
    resolution = "override" =>
        /\ enumerations = 0
        /\ probes = <<>>
        /\ ~walked
        /\ setup_return = "none"
        /\ outcome # "select_failed" =>
              /\ SELECTED_MODEL = session_state.user_selected_model
              /\ resolved = session_state.user_selected_model
              /\ writes = 1

C8_Witness ==
    /\ resolution = "override"
    /\ pc = "search"
    /\ SELECTED_MODEL = session_state.user_selected_model
    /\ SELECTED_MODEL \notin CandSet
    /\ enumerations = 0
    /\ probes = <<>>

\* C9: in a run that reached the search or made a Summarizer call the resolved
\* model was written exactly once, by the resolution step, and every Summarizer
\* call used that identifier, never another model nor the hard-coded fallback.
C9_OneModelPerRun ==
    (pc \in {"search", "summarize"} \/ calls # <<>>) =>
        /\ writes = 1
        /\ Truthy(resolved)
        /\ SELECTED_MODEL = resolved
        /\ \A i \in 1..Len(calls) : calls[i].model = resolved

C9_Witness ==
    /\ Len(calls) >= 2
    /\ resolved # FallbackModel
    /\ \A i \in 1..Len(calls) : calls[i].model = resolved
    /\ RaisedCalls # {}

\* C10: a run started by a user who never moved the model selector off its
\* default entry resolves its model automatically (setup_gemini), not as an
\* explicit override.
C10_UnchangedSelectorIsAuto ==
    (op = "main" /\ resolution # "none" /\ ~selector_changed) => resolution = "auto"

====
